---- MODULE Spec2Model ----
(***************************************************************************)
(* A model of the list extractor of GerapyAutoExtractor:                   *)
(*   gerapy_auto_extractor/extractors/list.py  (ListExtractor)             *)
(*   gerapy_auto_extractor/utils/element.py    (element features)          *)
(*                                                                         *)
(* Strings are sequences of one-character strings, ordered by code point,  *)
(* so that str.startswith, sorted() and re.sub(r'\s*', '') are computed,   *)
(* not assumed.  Similarities are percentages (0.8 is 80).                  *)
(***************************************************************************)
EXTENDS Integers, Sequences, FiniteSets, TLC

VARIABLES
    self,             \* the ListExtractor's configuration (list.py 33-37)
    html,             \* the argument of extract_list
    element,          \* html2element(html)
    pc,               \* position of the call: start, process, clusters, best, done, failed
    candidates,       \* the descendants appended to descendants_tree by the loop of _build_clusters
    descendants_tree, \* descendants_tree after the tree cut
    clusters,         \* cluster_dict(descendants_tree)
    best_cluster,     \* _choose_best_cluster(clusters)
    result,           \* the value the call returned
    error,            \* the exception the call raised
    feature,          \* the last feature function called on the absent element, with its outcome
    selectors_in,     \* tree cut alone: the keys of a descendants_tree
    selectors_cut,    \* tree cut alone: the keys left by one pass
    selectors_again,  \* tree cut alone: the keys left by a second pass
    cut_pc            \* tree cut alone: idle, ready, cut, again

vars == <<self, html, element, pc, candidates, descendants_tree, clusters,
          best_cluster, result, error, feature,
          selectors_in, selectors_cut, selectors_again, cut_pc>>

----------------------------------------------------------------------------
(* Python values *)

None == [kind |-> "None"]
NotComputed == [kind |-> "NotComputed"]

PyStr(s) == [kind |-> "str", val |-> s]
PyInt(n) == [kind |-> "int", val |-> n]
PyList(l) == [kind |-> "list", val |-> l]
PyDict(d) == [kind |-> "dict", val |-> d]
PyFloat == [kind |-> "float"]
Raised(e) == [kind |-> "raised", val |-> e]

\* the code points of the characters the model's documents use
Ord(c) ==
    CASE c = " " -> 32 [] c = "\n" -> 10
      [] c = "\"" -> 34 [] c = "(" -> 40 [] c = ")" -> 41 [] c = "-" -> 45
      [] c = "/" -> 47
      [] c = "1" -> 49 [] c = "2" -> 50 [] c = "3" -> 51 [] c = "4" -> 52
      [] c = "5" -> 53 [] c = "6" -> 54 [] c = "7" -> 55 [] c = "8" -> 56
      [] c = "9" -> 57
      [] c = ":" -> 58 [] c = "=" -> 61 [] c = ">" -> 62
      [] c = "[" -> 91 [] c = "]" -> 93
      [] c = "a" -> 97 [] c = "b" -> 98 [] c = "c" -> 99 [] c = "d" -> 100
      [] c = "e" -> 101 [] c = "h" -> 104 [] c = "i" -> 105 [] c = "l" -> 108
      [] c = "m" -> 109 [] c = "n" -> 110 [] c = "o" -> 111 [] c = "p" -> 112
      [] c = "r" -> 114 [] c = "s" -> 115 [] c = "t" -> 116 [] c = "u" -> 117
      [] c = "v" -> 118 [] c = "x" -> 120 [] c = "y" -> 121

Whitespace == {" ", "\n"}

\* re.sub(r'\s*', '', s): s without its whitespace characters
StripWhitespace(s) ==
    LET Kept(c) == c \notin Whitespace
    IN  SelectSeq(s, Kept)

\* str.startswith
StartsWith(s, prefix) ==
    /\ Len(prefix) <= Len(s)
    /\ \A i \in 1..Len(prefix) : s[i] = prefix[i]

\* the order of Python's str: by code point, a proper prefix first
StrLess(s, t) ==
    \E i \in 1..Len(t) :
        /\ \A j \in 1..(i - 1) : j <= Len(s) /\ s[j] = t[j]
        /\ (i > Len(s) \/ Ord(s[i]) < Ord(t[i]))

\* sorted(list(keys))
RECURSIVE Sorted(_)
Sorted(keys) ==
    IF keys = {} THEN <<>>
    ELSE LET least == CHOOSE k \in keys : \A o \in keys \ {k} : StrLess(k, o)
         IN  <<least>> \o Sorted(keys \ {least})

\* s[::-1]
Reversed(s) == [i \in 1..Len(s) |-> s[Len(s) + 1 - i]]

Digit(n) ==
    CASE n = 1 -> "1" [] n = 2 -> "2" [] n = 3 -> "3" [] n = 4 -> "4" [] n = 5 -> "5"
      [] n = 6 -> "6" [] n = 7 -> "7" [] n = 8 -> "8" [] n = 9 -> "9"

----------------------------------------------------------------------------
(* Elements: utils/element.py.  An element is the chain of nodes from the    *)
(* root of the document to the element itself; a node has a tag, attributes  *)
(* (name, value pairs) and the number of siblings preceding it.              *)

Node(tag, attrib, preceding) == [tag |-> tag, attrib |-> attrib, preceding |-> preceding]
Element(nodes) == [kind |-> "Element", nodes |-> nodes]
Last(s) == s[Len(s)]

parent(e) ==
    IF e = None THEN None
    ELSE IF Len(e.nodes) = 1 THEN None
    ELSE Element(SubSeq(e.nodes, 1, Len(e.nodes) - 1))

RECURSIVE AttribText(_)
AttribText(attrib) ==
    IF attrib = <<>> THEN <<>>
    ELSE LET k == StripWhitespace(Head(attrib)[1])
             v == StripWhitespace(Head(attrib)[2])
         IN  (IF v # <<>>
              THEN <<"[">> \o k \o <<"=", "\"">> \o v \o <<"\"", "]">>
              ELSE <<"[">> \o k \o <<"]">>)
             \o AttribText(Tail(attrib))

NthChild(nth) ==
    <<":", ":", "n", "t", "h", "-", "c", "h", "i", "l", "d", "(", Digit(nth), ")">>

alias(e) ==
    IF e = None THEN <<>>
    ELSE LET node == Last(e.nodes)
             nth == node.preceding + 1
         IN  node.tag \o AttribText(node.attrib)
             \o (IF nth # 1 THEN NthChild(nth) ELSE <<>>)

RECURSIVE selector(_)
selector(e) ==
    IF e = None THEN <<>>
    ELSE LET p == parent(e)
         IN  IF p # None THEN selector(p) \o <<">">> \o alias(e)
             ELSE alias(e)

RECURSIVE path_raw(_)
path_raw(e) ==
    IF e = None THEN <<>>
    ELSE LET p == parent(e)
         IN  IF p # None THEN path_raw(p) \o <<"/">> \o Last(e.nodes).tag
             ELSE Last(e.nodes).tag

----------------------------------------------------------------------------
(* The tree cut of _build_clusters: list.py 79-86 *)

\* the loop leaving at its first deletion
RECURSIVE CutLoop_break(_, _, _)
CutLoop_break(walk, last_selector, keys) ==
    IF walk = <<>> THEN keys
    ELSE LET sel == Head(walk)
             del == /\ last_selector # None
                    /\ last_selector.val # <<>>
                    /\ sel # <<>>
                    /\ StartsWith(last_selector.val, sel)
         IN  IF del THEN keys \ {sel}
             ELSE CutLoop_break(Tail(walk), PyStr(sel), keys)

\* the loop over selectors[::-1]; `walk` is what is left of the reversed list
RECURSIVE CutLoop(_, _, _)
CutLoop(walk, last_selector, keys) ==
    IF walk = <<>> THEN keys
    ELSE LET sel == Head(walk)
             del == /\ last_selector # None
                    /\ last_selector.val # <<>>
                    /\ sel # <<>>
                    /\ StartsWith(last_selector.val, sel)
         IN  CutLoop(Tail(walk), PyStr(sel), IF del THEN keys \ {sel} ELSE keys)

\* the walk without [::-1]
TreeCut_ascending(keys) == CutLoop(Sorted(keys), None, keys)

TreeCut(keys) == CutLoop(Reversed(Sorted(keys)), None, keys)

----------------------------------------------------------------------------
(* The tree cut applied to a mapping's keys, and applied again *)

MaxSelectors == 3

Html == Node(<<"h", "t", "m", "l">>, <<>>, 0)
Body == Node(<<"b", "o", "d", "y">>, <<>>, 0)
Div(nth) == Node(<<"d", "i", "v">>, <<>>, nth - 1)
DivX(nth) == Node(<<"d", "i", "v">>, <<<< <<"c", "l", "a", "s", "s">>, <<"x">> >>>>, nth - 1)
Li(nth) == Node(<<"l", "i">>, <<>>, nth - 1)

\* the parents whose selectors are the keys: parent_selector is selector(parent)
Parents ==
    { None,
      Element(<<Html>>),
      Element(<<Html, Body>>),
      Element(<<Html, Body, Div(1)>>),
      Element(<<Html, Body, Div(2)>>),
      Element(<<Html, Body, DivX(2)>>),
      Element(<<Html, Body, Div(1), Li(1)>>),
      Element(<<Html, Body, Div(1), Li(2)>>),
      Element(<<Html, Body, Div(2), Li(1)>>) }

\* two elements of one document: where their chains part, the positions differ
SameDocument(e, f) ==
    IF e = None \/ f = None THEN TRUE
    ELSE \A i \in 1..Len(e.nodes) :
           (i <= Len(f.nodes) /\ e.nodes[i] # f.nodes[i])
               => \/ e.nodes[i].preceding # f.nodes[i].preceding
                  \/ \E j \in 1..(i - 1) : e.nodes[j] # f.nodes[j]

InitCut ==
    /\ self = None /\ html = None /\ element = None /\ pc = "idle"
    /\ candidates = NotComputed /\ descendants_tree = NotComputed
    /\ clusters = NotComputed /\ best_cluster = NotComputed
    /\ result = None /\ error = None /\ feature = None
    /\ \E ps \in SUBSET Parents :
          /\ Cardinality(ps) <= MaxSelectors
          /\ \A e, f \in ps : SameDocument(e, f)
          /\ selectors_in = {selector(e) : e \in ps}
    /\ selectors_cut = {} /\ selectors_again = {}
    /\ cut_pc = "ready"

Cut ==
    /\ cut_pc = "ready"
    /\ selectors_cut' = TreeCut(selectors_in)
    /\ cut_pc' = "cut"
    /\ UNCHANGED <<self, html, element, pc, candidates, descendants_tree, clusters,
                   best_cluster, result, error, feature, selectors_in, selectors_again>>

CutAgain ==
    /\ cut_pc = "cut"
    /\ selectors_again' = TreeCut(selectors_cut)
    /\ cut_pc' = "again"
    /\ UNCHANGED <<self, html, element, pc, candidates, descendants_tree, clusters,
                   best_cluster, result, error, feature, selectors_in, selectors_cut>>

NextCut == Cut \/ CutAgain

SpecCut == InitCut /\ [][NextCut]_vars

----------------------------------------------------------------------------
(* Documents.  A document is <html>, an optional <body>, and in the body a   *)
(* sequence of blocks <div>, each with `rows` rows <li>; a row holds links   *)
(* <a>, directly or wrapped in <h3>.                                          *)

LIST_MIN_NUMBER == 5
LIST_MIN_LENGTH == 8
LIST_MAX_LENGTH == 35
SIMILARITY_THRESHOLD == 80

MaxBlocks == 2

H3(nth) == Node(<<"h", "3">>, <<>>, nth - 1)
A(nth) == Node(<<"a">>, <<>>, nth - 1)

\* a raw text of n characters, every fourth one a blank
MkText(n) == [i \in 1..n |-> IF i % 4 = 0 THEN " " ELSE "x"]

Link(wrap, raw, href) == [wrap |-> wrap, raw |-> raw, href |-> href]
Href(r) == PyStr(<<"/", "p", "/", Digit(r)>>)

Kinds == {"plain", "few", "unlike", "nolink", "image", "nohref", "mixed", "long", "short"}

\* the links of row r of a block of each kind
LinksOf(kind, r) ==
    CASE kind \in {"plain", "few", "unlike"} -> <<Link(FALSE, MkText(28), Href(r))>>
      [] kind = "nolink" -> <<>>
      [] kind = "image"  ->
            IF r = 1
            THEN <<Link(FALSE, <<" ", "\n">>, Href(r)), Link(TRUE, MkText(12), Href(r))>>
            ELSE <<Link(FALSE, MkText(28), Href(r))>>
      [] kind = "nohref" ->
            IF r = 1 THEN <<Link(FALSE, MkText(28), None)>>
            ELSE IF r = 2 THEN <<Link(FALSE, MkText(28), PyStr(<<>>))>>
            ELSE <<Link(FALSE, MkText(28), Href(r))>>
      [] kind = "mixed"  -> <<Link(FALSE, MkText(4), Href(r)), Link(TRUE, MkText(48), Href(r))>>
      [] kind = "long"   -> <<Link(FALSE, MkText(48), Href(r))>>
      [] kind = "short"  -> <<Link(FALSE, MkText(4), Href(r))>>

\* how alike the rows of a block of each kind are: the mean similarity of a
\* row's alias with its siblings' aliases, in percent
SimilarityOf(kind) == IF kind = "unlike" THEN 50 ELSE 90

\* the number of rows of a block of each kind
RowsOf(kind) == IF kind = "few" THEN LIST_MIN_NUMBER - 2 ELSE LIST_MIN_NUMBER

Blocks == [kind : Kinds]

Documents ==
    {[body |-> FALSE, blocks |-> <<>>]}
    \cup {[body |-> TRUE, blocks |-> bs] :
            bs \in UNION {[1..n -> Blocks] : n \in 0..MaxBlocks}}

Root(tree) == [kind |-> "Element", nodes |-> <<Html>>, tree |-> tree]

\* lxml.html.fromstring: the tree the markup stands for
fromstring(h) == Root(h.val)

\* html2element without the empty-string half of `not html`
html2element_only_none(h) ==
    IF h.kind = "None" THEN None
    ELSE IF h.kind = "str" THEN Root([body |-> FALSE, blocks |-> <<>>])
    ELSE fromstring(h)

\* `not html`: None or the empty string
html2element(h) ==
    IF h.kind = "None" \/ (h.kind = "str" /\ h.val = <<>>) THEN None
    ELSE fromstring(h)

\* the concatenation of a sequence of sequences
RECURSIVE Flatten(_)
Flatten(ss) ==
    IF ss = <<>> THEN <<>>
    ELSE IF Len(ss) = 1 THEN ss[1]
    ELSE LET half == Len(ss) \div 2
         IN  Flatten(SubSeq(ss, 1, half)) \o Flatten(SubSeq(ss, half + 1, Len(ss)))

IsA(e) == Last(e.nodes).tag = <<"a">>

\* element.iterchildren()
children(tree, e) ==
    IF e = None THEN <<>>
    ELSE LET depth == Len(e.nodes)
             kind == tree.blocks[e.nodes[3].preceding + 1].kind
             links == LinksOf(kind, e.nodes[4].preceding + 1)
         IN  CASE depth = 1 -> IF tree.body THEN <<Element(<<Html, Body>>)>> ELSE <<>>
               [] depth = 2 -> [b \in 1..Len(tree.blocks) |-> Element(Append(e.nodes, Div(b)))]
               [] depth = 3 ->
                    [r \in 1..RowsOf(kind) |->
                        Element(Append(e.nodes, Li(r)))]
               [] depth = 4 ->
                    [l \in 1..Len(links) |->
                        Element(Append(e.nodes, IF links[l].wrap THEN H3(l) ELSE A(l)))]
               [] depth = 5 -> IF IsA(e) THEN <<>> ELSE <<Element(Append(e.nodes, A(1)))>>
               [] depth = 6 -> <<>>

\* element.iterdescendants(): the subtrees of the children, in document order
RECURSIVE DescendantsOf(_, _)
DescendantsOf(tree, cs) ==
    Flatten([i \in 1..Len(cs) |-> <<cs[i]>> \o DescendantsOf(tree, children(tree, cs[i]))])

\* the element first when `including`, then element.iterdescendants()
descendants(tree, e, including) ==
    IF e = None THEN <<>>
    ELSE (IF including THEN <<e>> ELSE <<>>) \o DescendantsOf(tree, children(tree, e))

descendants_of_body(el) ==
    IF el = None THEN <<>>
    ELSE IF el.tree.body THEN descendants(el.tree, Element(<<Html, Body>>), TRUE)
    ELSE <<>>

\* element.xpath('.//a')
a_descendants(tree, e) ==
    IF e = None THEN <<>>
    ELSE SelectSeq(descendants(tree, e, FALSE), IsA)

\* the link record of an <a> element
LinkOf(tree, a) ==
    LET b == a.nodes[3].preceding + 1
        r == a.nodes[4].preceding + 1
        l == a.nodes[5].preceding + 1
    IN  LinksOf(tree.blocks[b].kind, r)[l]

\* the text nodes of the links, joined
TextOf(tree, links) == Flatten([i \in 1..Len(links) |-> LinkOf(tree, links[i]).raw])

\* ''.join(element.xpath('.//text()')): the text lives in the links
RawText(tree, e) == TextOf(tree, SelectSeq(descendants(tree, e, TRUE), IsA))

text(tree, e) ==
    IF e = None THEN PyInt(0)
    ELSE PyStr(StripWhitespace(RawText(tree, e)))

\* len(x)
PyLen(x) ==
    IF x.kind \in {"str", "list"} THEN PyInt(Len(x.val))
    ELSE Raised("TypeError")

number_of_char(tree, e) == PyLen(text(tree, e))

\* element.itersiblings(), preceding and following: the other children of the parent
siblings(tree, e) ==
    IF e = None THEN <<>>
    ELSE LET Other(d) == d # e
         IN  SelectSeq(children(tree, parent(e)), Other)

number_of_siblings(tree, e) ==
    IF e = None THEN 0
    ELSE Len(siblings(tree, e))

----------------------------------------------------------------------------
(* Attributes of Element that list.py reads *)

\* fractions, for the means
Frac(num, den) == [num |-> num, den |-> den]
FracLess(x, y) == x.num * y.den < y.num * x.den

RECURSIVE Sum(_)
Sum(ns) == IF ns = <<>> THEN 0 ELSE Head(ns) + Sum(Tail(ns))

\* numpy.mean of a non-empty list of integers
Mean(ns) == Frac(Sum(ns), Len(ns))

parent_selector(e) == selector(parent(e))

tag_path(e) == path_raw(e)

linked_descendants(tree, e) == a_descendants(tree, e)

\* dictionaries are sequences of [key, val] in insertion order
Keys(dict) == {dict[i].key : i \in 1..Len(dict)}
Get(dict, key) == (CHOOSE i \in 1..Len(dict) : dict[i].key = key)

\* a defaultdict(list) after `d[keys[i]].append(values[i])` for each i in turn
GroupBy(keys, values) ==
    LET n == Len(keys)
        IsFirst(i) == \A j \in 1..(i - 1) : keys[j] # keys[i]
        firsts == SelectSeq([i \in 1..n |-> i], IsFirst)
        Under(key) ==
            LET Has(i) == keys[i] = key
                at == SelectSeq([i \in 1..n |-> i], Has)
            IN  [i \in 1..Len(at) |-> values[at[i]]]
    IN  [k \in 1..Len(firsts) |->
            [key |-> keys[firsts[k]], val |-> Under(keys[firsts[k]])]]

\* the path_raw of each link, and the length of the text of each link
PathsOf(links) == [i \in 1..Len(links) |-> path_raw(links[i])]
TextLengths(tree, links) == [i \in 1..Len(links) |-> number_of_char(tree, links[i]).val]

\* the mean of each group of a mapping
MeansOf(dict) == {Mean(dict[k].val) : k \in 1..Len(dict)}

\* the mean text length of each group of links with one path_raw
GroupTextLengths(tree, links) ==
    MeansOf(GroupBy(PathsOf(links), TextLengths(tree, links)))

linked_descendants_group_text_length(tree, e) ==
    GroupTextLengths(tree, linked_descendants(tree, e))

\* min(values), max(values); 0 when there is no group
Least(values) ==
    IF values = {} THEN Frac(0, 1)
    ELSE CHOOSE v \in values : \A w \in values : ~FracLess(w, v)

Greatest(values) ==
    IF values = {} THEN Frac(0, 1)
    ELSE CHOOSE v \in values : \A w \in values : ~FracLess(v, w)

linked_descendants_group_text_min_length(tree, e) ==
    Least(linked_descendants_group_text_length(tree, e))

linked_descendants_group_text_max_length(tree, e) ==
    Greatest(linked_descendants_group_text_length(tree, e))

\* mean of similarity(alias, sibling alias) over the siblings, in percent;
\* the rows of a block are as alike as the block says
similarity_with_siblings(tree, e) ==
    IF siblings(tree, e) = <<>> THEN 0
    ELSE CASE Len(e.nodes) = 4 -> SimilarityOf(tree.blocks[e.nodes[3].preceding + 1].kind)

----------------------------------------------------------------------------
(* ListExtractor: extractors/list.py *)

\* __init__; avg_length is kept doubled, it is (min_length + max_length) / 2
ListExtractor(min_number, min_length, max_length, similarity_threshold) ==
    [min_number |-> min_number, min_length |-> min_length, max_length |-> max_length,
     avg_length_x2 |-> min_length + max_length,
     similarity_threshold |-> similarity_threshold]

\* exp(-x / (8 * sigma ** 2)) / (sqrt(2 * pi) * sigma) * 10 ** 6 with sigma 6,
\* for x the square of 2 * (length - avg_length)
Gaussian(x) ==
    CASE x = 1 -> 66260 [] x = 49 -> 56088 [] x = 289 -> 24376
      [] x = 625 -> 7591 [] x = 841 -> 3586 [] x = 1225 -> 945
      [] x = 1369 -> 573 [] x = 1849 -> 108

_probability_of_title_with_length(ex, length) ==
    Gaussian((2 * length - ex.avg_length_x2) * (2 * length - ex.avg_length_x2))

\* the similarity test the wrong way round
Appended_flipped(ex, tree, d, similarity_threshold) ==
    /\ ~(number_of_siblings(tree, d) + 1 < ex.min_number)
    /\ ~FracLess(Frac(ex.max_length, 1), linked_descendants_group_text_min_length(tree, d))
    /\ ~FracLess(linked_descendants_group_text_max_length(tree, d), Frac(ex.min_length, 1))
    /\ ~(similarity_with_siblings(tree, d) > similarity_threshold)

\* the four tests of the loop of _build_clusters: the descendant is appended
Appended(ex, tree, d, similarity_threshold) ==
    /\ ~(number_of_siblings(tree, d) + 1 < ex.min_number)
    /\ ~FracLess(Frac(ex.max_length, 1), linked_descendants_group_text_min_length(tree, d))
    /\ ~FracLess(linked_descendants_group_text_max_length(tree, d), Frac(ex.min_length, 1))
    /\ ~(similarity_with_siblings(tree, d) < similarity_threshold)

\* the mapping filled by descendants_tree[descendant.parent_selector].append(descendant)
ByParentSelector(kept) ==
    GroupBy([i \in 1..Len(kept) |-> parent_selector(kept[i])], kept)

\* list.py 58-77: the mapping before the tree cut
Grouped(ex, el) ==
    ByParentSelector(SelectSeq(descendants_of_body(el),
                               LAMBDA d : Appended(ex, el.tree, d, ex.similarity_threshold)))

\* the items of the mapping whose keys are kept
Restricted(dict, kept) == SelectSeq(dict, LAMBDA item : item.key \in kept)

\* list.py 79-86 on the mapping
CutTree(dict) == Restricted(dict, TreeCut(Keys(dict)))

\* utils/cluster.py: the groupings cluster_dict may return.  The relatedness
\* of two keys is the utility's own rule: any partition of the keys, the
\* clusters numbered from 0 in the order of their first key.
cluster_dict(dict) ==
    LET n == Len(dict)
        Growth(g) == \A i \in 1..n :
                        IF i = 1 THEN g[i] = 0
                        ELSE \E j \in 1..(i - 1) : g[i] <= g[j] + 1
        Ids(g) == {g[i] : i \in 1..n}
        Members(g, c) ==
            Flatten([i \in 1..n |-> IF g[i] = c THEN dict[i].val ELSE <<>>])
    IN  {[c \in 1..Cardinality(Ids(g)) |-> [key |-> c - 1, val |-> Members(g, c - 1)]] :
            g \in {h \in [1..n -> 0..(n - 1)] : Growth(h)}}

\* list.py 53-88
_build_clusters(ex, el) == cluster_dict(CutTree(Grouped(ex, el)))

\* np.mean of the similarity_with_siblings of a cluster's elements
ClusterScore(tree, cluster) ==
    Mean([i \in 1..Len(cluster) |-> similarity_with_siblings(tree, cluster[i])])

\* the loop over clusters.items(): the key of the first greatest score
RECURSIVE ScoreLoop(_, _, _, _)
ScoreLoop(tree, items, arg_max, score_max) ==
    IF items = <<>> THEN arg_max
    ELSE IF FracLess(score_max, ClusterScore(tree, Head(items).val))
         THEN ScoreLoop(tree, Tail(items), Head(items).key,
                        ClusterScore(tree, Head(items).val))
         ELSE ScoreLoop(tree, Tail(items), arg_max, score_max)

\* clusters.get(key, []) in place of the subscript
Subscript_get(cl, key) ==
    IF key \in Keys(cl) THEN PyList(cl[Get(cl, key)].val)
    ELSE PyList(<<>>)

\* clusters[key]: the cluster, or KeyError
Subscript(cl, key) ==
    IF key \in Keys(cl) THEN PyList(cl[Get(cl, key)].val)
    ELSE Raised("KeyError")

\* list.py 90-109: the best cluster, or the KeyError of clusters[0]
_choose_best_cluster(tree, cl) == Subscript(cl, ScoreLoop(tree, cl, 0, Frac(-1, 1)))

\* the linked descendants of the cluster's elements, in the order of the loops
ClusterLinks(tree, cluster) ==
    Flatten([i \in 1..Len(cluster) |-> linked_descendants(tree, cluster[i])])

\* the probability of each link's text length
Probabilities(ex, lengths) ==
    [i \in 1..Len(lengths) |-> _probability_of_title_with_length(ex, lengths[i])]

\* list.py 118-128: tag path -> probabilities, in insertion order
ProbabilitiesOfTitle(ex, tree, links) ==
    GroupBy(PathsOf(links), Probabilities(ex, TextLengths(tree, links)))

\* list.py 130: {k: np.mean(v) for k, v in probabilities_of_title.items()}
Averages(dict) == [i \in 1..Len(dict) |-> [key |-> dict[i].key, val |-> Mean(dict[i].val)]]

\* max(d.items(), key=operator.itemgetter(1)): the first of the greatest
FirstMax(avg) ==
    CHOOSE i \in 1..Len(avg) :
        /\ \A j \in 1..Len(avg) : ~FracLess(avg[i].val, avg[j].val)
        /\ \A j \in 1..(i - 1) : FracLess(avg[j].val, avg[i].val)

\* the title and href of each link
RecordsOf(tree, kept) ==
    [i \in 1..Len(kept) |->
        [title |-> text(tree, kept[i]).val, href |-> LinkOf(tree, kept[i]).href.val]]

\* list.py 135-150: the links on the best tag path that have an href
Records(tree, links, best_tag_path) ==
    RecordsOf(tree,
              SelectSeq(links,
                        LAMBDA descendant :
                            /\ tag_path(descendant) = best_tag_path
                            /\ LinkOf(tree, descendant).href # None
                            /\ LinkOf(tree, descendant).href # PyStr(<<>>)))

\* max(..., default=None) in place of max(...): no tag path, no records
BestTagPathRecords_default(tree, links, avg) ==
    IF avg = <<>> THEN PyList(<<>>)
    ELSE PyList(Records(tree, links, avg[FirstMax(avg)].key))

\* list.py 131-150: the records of the best tag path, or the ValueError of
\* max() of nothing
BestTagPathRecords(tree, links, avg) ==
    IF avg = <<>> THEN Raised("ValueError")
    ELSE PyList(Records(tree, links, avg[FirstMax(avg)].key))

\* list.py 118-150 on the linked descendants of the cluster
ExtractFromLinks(ex, tree, links) ==
    BestTagPathRecords(tree, links, Averages(ProbabilitiesOfTitle(ex, tree, links)))

\* list.py 111-150
_extract_from_cluster(ex, tree, cluster) ==
    ExtractFromLinks(ex, tree, ClusterLinks(tree, cluster))

----------------------------------------------------------------------------
(* The other feature functions of utils/element.py, as a caller of the       *)
(* absent element meets them.  A value the model does not compute is a       *)
(* float of no stated value.                                                  *)

NoTree == [body |-> FALSE, blocks |-> <<>>]

number_of_a_char(tree, e) ==
    IF e = None THEN PyInt(0)
    ELSE PyInt(Len(StripWhitespace(TextOf(tree, a_descendants(tree, e)))))

number_of_descendants(tree, e) ==
    IF e = None THEN PyInt(0)
    ELSE PyInt(Len(descendants(tree, e, FALSE)))

path(e) ==
    IF e = None THEN <<>>
    ELSE LET nth == Last(e.nodes).preceding + 1
         IN  path_raw(e) \o (IF nth # 1 THEN Tail(NthChild(nth)) ELSE <<>>)

\* the mapping filled by result[path_raw(linked_descendant)].append(linked_descendant)
GroupByPath(links) == GroupBy(PathsOf(links), links)

\* element.a_descendants is read before anything else
a_descendants_group(tree, e) ==
    IF e = None THEN Raised("AttributeError")
    ELSE PyDict(GroupByPath(a_descendants(tree, e)))

\* element.number_of_descendants is read before anything else
density_of_text(tree, e) ==
    IF e = None THEN Raised("AttributeError")
    ELSE IF number_of_descendants(tree, e).val - Len(a_descendants(tree, e)) = 0 THEN PyInt(0)
    ELSE PyFloat

\* element.number_of_char is read before anything else
density_of_punctuation(tree, e) ==
    IF e = None THEN Raised("AttributeError")
    ELSE PyFloat

\* element1.alias is read before anything else
similarity_with_element(element1, element2) ==
    IF element1 = None \/ element2 = None THEN Raised("AttributeError")
    ELSE PyFloat

Features ==
    {"text", "number_of_char", "number_of_a_char", "number_of_descendants",
     "number_of_siblings", "alias", "selector", "path", "a_descendants_group",
     "density_of_text", "density_of_punctuation", "similarity_with_element",
     "similarity_with_siblings"}

\* the outcome of feature function f called with e
Call(f, tree, e) ==
    CASE f = "text" -> text(tree, e)
      [] f = "number_of_char" -> number_of_char(tree, e)
      [] f = "number_of_a_char" -> number_of_a_char(tree, e)
      [] f = "number_of_descendants" -> number_of_descendants(tree, e)
      [] f = "number_of_siblings" -> PyInt(number_of_siblings(tree, e))
      [] f = "alias" -> PyStr(alias(e))
      [] f = "selector" -> PyStr(selector(e))
      [] f = "path" -> PyStr(path(e))
      [] f = "a_descendants_group" -> a_descendants_group(tree, e)
      [] f = "density_of_text" -> density_of_text(tree, e)
      [] f = "density_of_punctuation" -> density_of_punctuation(tree, e)
      [] f = "similarity_with_element" -> similarity_with_element(e, e)
      [] f = "similarity_with_siblings" -> PyInt(similarity_with_siblings(tree, e))

----------------------------------------------------------------------------
(* extract_list(html): list.py 174-179, BaseExtractor.extract, process *)

Markup(doc) == [kind |-> "markup", val |-> doc]

Init ==
    /\ \E min_length \in {0, LIST_MIN_LENGTH} :
          self = ListExtractor(LIST_MIN_NUMBER, min_length, LIST_MAX_LENGTH, SIMILARITY_THRESHOLD)
    /\ html \in {None, PyStr(<<>>)} \cup {Markup(doc) : doc \in Documents}
    /\ element = None /\ pc = "start"
    /\ candidates = NotComputed /\ descendants_tree = NotComputed
    /\ clusters = NotComputed /\ best_cluster = NotComputed
    /\ result = None /\ error = None /\ feature = None
    /\ selectors_in = {} /\ selectors_cut = {} /\ selectors_again = {}
    /\ cut_pc = "idle"

\* extract: the absent element is answered with the empty list, any other is processed
Extract ==
    /\ pc = "start"
    /\ element' = html2element(html)
    /\ IF element' = None
       THEN result' = PyList(<<>>) /\ pc' = "done"
       ELSE result' = result /\ pc' = "process"
    /\ UNCHANGED <<self, html, candidates, descendants_tree, clusters, best_cluster,
                   error, feature, selectors_in, selectors_cut, selectors_again, cut_pc>>

\* process, list.py 162
BuildClusters ==
    /\ pc = "process"
    /\ candidates' = PyDict(Grouped(self, element))
    /\ descendants_tree' = PyDict(CutTree(candidates'.val))
    /\ clusters' \in {PyDict(cl) : cl \in cluster_dict(descendants_tree'.val)}
    /\ pc' = "clusters"
    /\ UNCHANGED <<self, html, element, best_cluster, result, error, feature,
                   selectors_in, selectors_cut, selectors_again, cut_pc>>

\* process, list.py 165
ChooseBestCluster ==
    /\ pc = "clusters"
    /\ \E best \in {_choose_best_cluster(element.tree, clusters.val)} :
          IF best.kind = "raised"
          THEN error' = best /\ pc' = "failed" /\ best_cluster' = best_cluster
          ELSE error' = error /\ pc' = "best" /\ best_cluster' = best
    /\ UNCHANGED <<self, html, element, candidates, descendants_tree, clusters, result,
                   feature, selectors_in, selectors_cut, selectors_again, cut_pc>>

\* process, list.py 168
ExtractFromCluster ==
    /\ pc = "best"
    /\ \E res \in {_extract_from_cluster(self, element.tree, best_cluster.val)} :
          IF res.kind = "raised"
          THEN error' = res /\ pc' = "failed" /\ result' = result
          ELSE error' = error /\ pc' = "done" /\ result' = res
    /\ UNCHANGED <<self, html, element, candidates, descendants_tree, clusters,
                   best_cluster, feature, selectors_in, selectors_cut, selectors_again,
                   cut_pc>>

\* a feature function called with the absent element html2element returned
CallFeature ==
    /\ pc = "done"
    /\ element = None
    /\ feature = None
    /\ \E f \in Features : feature' = [name |-> f, out |-> Call(f, NoTree, element)]
    /\ UNCHANGED <<self, html, element, pc, candidates, descendants_tree, clusters,
                   best_cluster, result, error, selectors_in, selectors_cut,
                   selectors_again, cut_pc>>

Next ==
    \/ Extract
    \/ BuildClusters
    \/ ChooseBestCluster
    \/ ExtractFromCluster
    \/ CallFeature

Spec == Init /\ [][Next]_vars

----------------------------------------------------------------------------
(* Claims about the tree cut, under SpecCut *)

\* s.split('>')
RECURSIVE Split(_)
Split(s) ==
    IF \A i \in 1..Len(s) : s[i] # ">" THEN <<s>>
    ELSE LET at == CHOOSE i \in 1..Len(s) :
                       s[i] = ">" /\ \A j \in 1..(i - 1) : s[j] # ">"
         IN  <<SubSeq(s, 1, at - 1)>> \o Split(SubSeq(s, at + 1, Len(s)))

\* `anc` is the first k alias segments of `key`, k less than key's segment count
AncestorPath(anc, key) ==
    LET a == Split(anc)
        k == Split(key)
    IN  /\ Len(a) < Len(k)
        /\ \A i \in 1..Len(a) : a[i] = k[i]

\* C6: the tree cut applied to the keys it has produced deletes nothing.
C6_TreeCutIdempotent ==
    cut_pc = "again" => selectors_again = selectors_cut

C6_Witness ==
    /\ cut_pc = "again"
    /\ selectors_cut # selectors_in
    /\ Cardinality(selectors_cut) >= 2

\* C7 as stated: after the tree cut no key still present is a string-prefix of
\* another key still present, the empty-string selector included.
C7_NoPrefixPairAtAll ==
    cut_pc # "ready" =>
        \A a, b \in selectors_cut : a # b => ~StartsWith(a, b)

\* C7 amended: after the tree cut no non-empty key still present is a
\* string-prefix of another key still present; an empty-string key is never
\* deleted, so it stays alongside the keys it is a prefix of.
C7_NoPrefixPairOfNonEmpty ==
    cut_pc # "ready" =>
        /\ \A a, b \in selectors_cut :
               (a # b /\ a # <<>> /\ b # <<>>) => ~StartsWith(a, b)
        /\ <<>> \in selectors_in => <<>> \in selectors_cut

C7_Witness ==
    /\ cut_pc = "cut"
    /\ Cardinality(selectors_in) = 3
    /\ Cardinality(selectors_cut) = 2
    /\ <<>> \in selectors_cut

\* C10: every key the tree cut deletes is a true ancestor path of a key that
\* survives; a group on another branch is never deleted.
C10_OnlyAncestorsDeleted ==
    cut_pc # "ready" =>
        \A d \in selectors_in \ selectors_cut :
            \E k \in selectors_cut : AncestorPath(d, k)

----------------------------------------------------------------------------
(* Claims about extract_list, under Spec *)

Tree == element.tree
Range(seq) == {seq[i] : i \in 1..Len(seq)}

\* the body descendants of the document
Descendants == Range(descendants_of_body(element))

\* the descendants the loop of _build_clusters appended to a group
Candidates == UNION {Range(candidates.val[i].val) : i \in 1..Len(candidates.val)}

\* C1: every record of the returned list has a non-empty href and a non-empty
\* title.
C1_RecordsHaveHrefAndTitle ==
    result.kind = "list" =>
        \A i \in 1..Len(result.val) :
            result.val[i].href # <<>> /\ result.val[i].title # <<>>

\* every group of linked descendants of d has a text length outside
\* [min_length, max_length]
AllGroupsOutside(ex, tree, d) ==
    LET values == linked_descendants_group_text_length(tree, d)
    IN  /\ values # {}
        /\ \A v \in values :
              FracLess(v, Frac(ex.min_length, 1)) \/ FracLess(Frac(ex.max_length, 1), v)

\* C2: a body descendant whose groups of linked descendants all have a text
\* length outside [min_length, max_length] is placed in no group.
C2_LengthWindowExclusion ==
    pc = "clusters" =>
        \A cs \in {Candidates} :
            \A d \in Descendants : AllGroupsOutside(self, Tree, d) => d \notin cs

\* C3: when no body descendant passes the four tests (too few peers, or no
\* <body>), the call fails with an exception and returns no list.
C3_NoCandidatesFails ==
    (candidates.kind = "dict" /\ candidates.val = <<>> /\ pc # "clusters") =>
        pc = "failed" /\ error.kind = "raised" /\ result = None

C3_Witness ==
    /\ pc = "failed"
    /\ candidates.val = <<>>
    /\ Tree.body
    /\ \E b \in 1..Len(Tree.blocks) : Tree.blocks[b].kind = "few"

\* C4: every feature function called with the absent element returns the
\* feature's zero value (the empty string for the string features, the empty
\* collection for a_descendants_group, 0 for the others) and raises nothing.
C4_FeaturesTotalOnAbsent ==
    feature # None =>
        LET zero == CASE feature.name \in {"text", "alias", "selector", "path"} -> PyStr(<<>>)
                      [] feature.name = "a_descendants_group" -> PyDict(<<>>)
                      [] OTHER -> PyInt(0)
        IN  /\ feature.out.kind = zero.kind
            /\ feature.out.val = zero.val

\* C5: extract_list of an empty or absent html returns the empty list at once:
\* no exception, no clustering, no scoring.
C5_EmptyInputReturnsEmptyList ==
    ((html.kind = "None" \/ (html.kind = "str" /\ html.val = <<>>)) /\ pc # "start") =>
        /\ pc = "done"
        /\ result = PyList(<<>>)
        /\ error = None
        /\ candidates = NotComputed
        /\ clusters = NotComputed
        /\ best_cluster = NotComputed

C5_Witness ==
    /\ html.kind = "str"
    /\ pc = "done"
    /\ result = PyList(<<>>)

\* C8: when the chosen cluster has no linked descendants the call fails with
\* an exception and returns no list, the empty one included.
C8_NoLinkedTitleFails ==
    (best_cluster.kind = "list" /\ pc # "best"
        /\ ClusterLinks(Tree, best_cluster.val) = <<>>) =>
            pc = "failed" /\ error = Raised("ValueError") /\ result = None

C8_Witness ==
    /\ pc = "failed"
    /\ best_cluster.kind = "list"
    /\ best_cluster.val # <<>>
    /\ error = Raised("ValueError")

Thresholds == {0, 50, SIMILARITY_THRESHOLD, 90, 100}

\* the body descendants the four tests keep under a threshold
Survivors(ds, t) == {d \in ds : Appended(self, Tree, d, t)}

\* C9: with the document and the other parameters fixed, the descendants kept
\* under a threshold are among those kept under any lower threshold; the
\* mapping built is the one of the configured threshold.
C9_ThresholdMonotone ==
    pc = "clusters" =>
        \A ds \in {Descendants} :
            \A kept \in {[t \in Thresholds |-> Survivors(ds, t)]} :
                /\ \A t1, t2 \in Thresholds : t1 <= t2 => kept[t2] \subseteq kept[t1]
                /\ Candidates = kept[self.similarity_threshold]

C9_Witness ==
    /\ pc = "clusters"
    /\ \A ds \in {Descendants} :
          /\ Survivors(ds, 90) # {}
          /\ Survivors(ds, 90) # Survivors(ds, 50)
          /\ Survivors(ds, 100) = {}

====
